---- MODULE Spec2Model ----
(***************************************************************************)
(* Place-name redaction of data_analysis/utils/clean_data.py:              *)
(* find_matches_positions, define_place_type and replace_places_by_flag.   *)
(*                                                                         *)
(* A text is a sequence of characters; a character is a one-letter string. *)
(* Two characters outside ASCII are written by their entity names:         *)
(* "&oacute;" is the letter o with acute accent, "&laquo;" is the left     *)
(* guillemet.  Offsets are Python offsets (0-based, half-open).            *)
(*                                                                         *)
(* The scrapers are modelled next to it, each with its own variables and   *)
(* specification: get_url and write_to_json of news_scraper/utils/         *)
(* methods.py, get_section_data of the Animal Politico, El Economista and  *)
(* El Financiero bots, and senate_bot of senate_scraper/senate_bot.py.     *)
(***************************************************************************)
EXTENDS Integers, Sequences, FiniteSets, TLC

VARIABLES
    text,                 \* argument `text` of replace_places_by_flag
    inegi_replacements,   \* argument `inegi_replacements` (category -> entry)
    pc,                   \* position inside replace_places_by_flag
    search_text,          \* unidecode(text.lower())
    category,             \* category whose find_matches_positions call runs
    value_idx,            \* number of names of names_list already taken
    pending,              \* matches of value_regex.finditer not yet visited
    found_matches_pos,    \* dict of find_matches_positions, insertion order
    cities_pos,           \* rows of cities_df
    estates_pos,          \* rows of estates_df
    total_replacements,   \* rows of total_replacements after sort_values
    row_idx,              \* number of rows the replacement loop has visited
    last_end,
    clean_text,
    result,               \* returned string, or <<>> before the return
    raised,               \* "none", or the exception that ended the call
    calls,                \* number of calls made so far, at most MaxCalls
    other,                \* local variables of a second invocation, suspended
    \* get_url of news_scraper/utils/methods.py
    method,               \* argument `method`
    max_retries,          \* argument `max_retries`
    num_try,
    response,             \* None, or the response held
    retry,                \* "unbound" before the first assignment
    get_url_pc,           \* "idle", "loop", "returned", or the exception raised
    outcomes,             \* what each request issued so far gave: a response,
                          \* or None when the request raised
    \* write_to_json of news_scraper/utils/methods.py
    outfile,              \* characters of the file at file_name, <<>> when
                          \* the file is missing or empty
    articles_written,     \* articles of all calls so far, in call order
    writes,               \* number of calls of write_to_json so far
    \* get_section_data of the news bots
    bot,                  \* NEWSPAPER_NAME of the bot
    ids_file,             \* ids in the processed-ids file of the section
    checkpoint,           \* None, or the number in the checkpoint file
    written_count,        \* times each article was written to its output file
    section_pc,           \* position inside get_section_data
    processed_ids,        \* processed_ids of get_section_data
    offset,
    total_results,
    groups,               \* groups of the batch not yet written
    batch_ids,            \* ids of articles_df after the two filters
    updated_processed_ids,
    final_batch,
    has_next,             \* "next" in response
    requests_made,        \* requests issued over all the calls
    runs,                 \* calls of get_section_data started
    \* senate_bot of senate_scraper/senate_bot.py
    start_date,           \* days after 2018-09-01
    end_date,
    requested_start,      \* start_date as senate_bot was given it
    legis_idx,            \* legislatures the loop has visited
    loads                 \* calls of load_legislature_data, in order

vars == << text, inegi_replacements, pc, search_text, category, value_idx,
           pending, found_matches_pos, cities_pos, estates_pos,
           total_replacements, row_idx, last_end, clean_text, result,
           raised, calls, other,
           method, max_retries, num_try, response, retry, get_url_pc, outcomes,
           outfile, articles_written, writes,
           bot, ids_file, checkpoint, written_count, section_pc, processed_ids,
           offset, total_results, groups, batch_ids, updated_processed_ids,
           final_batch, has_next, requests_made, runs,
           start_date, end_date, requested_start, legis_idx, loads >>

urlVars == << method, max_retries, num_try, response, retry, get_url_pc,
              outcomes >>
jsonVars == << outfile, articles_written, writes >>

botVars == << bot, ids_file, checkpoint, written_count, section_pc,
              processed_ids, offset, total_results, groups, batch_ids,
              updated_processed_ids, final_batch, has_next, requests_made,
              runs >>

senateVars == << start_date, end_date, requested_start, legis_idx, loads >>

\* the variables of the scrapers, which the redaction leaves alone
netVars == << urlVars, jsonVars, botVars, senateVars >>

\* the variables of replace_places_by_flag, which the scrapers leave alone
cleanVars == << text, inegi_replacements, pc, search_text, category,
                value_idx, pending, found_matches_pos, cities_pos,
                estates_pos, total_replacements, row_idx, last_end,
                clean_text, result, raised, calls, other >>

\* what each scraper component leaves alone
notUrl == << cleanVars, jsonVars, botVars, senateVars >>
notJson == << cleanVars, urlVars, botVars, senateVars >>
notBots == << cleanVars, urlVars, jsonVars, senateVars >>
notSenate == << cleanVars, urlVars, jsonVars, botVars >>

----------------------------------------------------------------------------
(* Bounds of the model. *)

\* texts are concatenations of at most MaxFrags fragments
MaxFrags == 3
\* replace_places_by_flag is applied at most MaxCalls times in a row
MaxCalls == 2

----------------------------------------------------------------------------
(* Characters and strings. *)

Min(a, b) == IF a < b THEN a ELSE b

\* Python slice s[a:b] for 0 <= a, 0 <= b: clipped to the string, empty
\* when a >= b.
Slice(s, a, b) ==
    LET hi == Min(b, Len(s))
    IN  IF a >= hi THEN << >> ELSE [k \in 1..(hi - a) |-> s[a + k]]

\* s[a:]
SliceFrom(s, a) == Slice(s, a, Len(s))

\* s.startswith(lit, i): the literal lit occurs in s at offset i
OccursAt(s, lit, i) ==
    /\ i >= 0
    /\ i + Len(lit) <= Len(s)
    /\ \A k \in 1..Len(lit) : s[i + k] = lit[k]

RECURSIVE Flatten(_)
\* concatenation of a sequence of strings
Flatten(ss) == IF ss = << >> THEN << >> ELSE Head(ss) \o Flatten(Tail(ss))

UpperAscii == {"A","B","C","D","E","F","G","H","I","J","K","L","M",
               "N","O","P","Q","R","S","T","U","V","W","X","Y","Z"}

\* str.lower() of one character
LowerChar(c) ==
    CASE c = "A" -> "a" [] c = "B" -> "b" [] c = "C" -> "c" [] c = "D" -> "d"
      [] c = "E" -> "e" [] c = "F" -> "f" [] c = "G" -> "g" [] c = "H" -> "h"
      [] c = "I" -> "i" [] c = "J" -> "j" [] c = "K" -> "k" [] c = "L" -> "l"
      [] c = "M" -> "m" [] c = "N" -> "n" [] c = "O" -> "o" [] c = "P" -> "p"
      [] c = "Q" -> "q" [] c = "R" -> "r" [] c = "S" -> "s" [] c = "T" -> "t"
      [] c = "U" -> "u" [] c = "V" -> "v" [] c = "W" -> "w" [] c = "X" -> "x"
      [] c = "Y" -> "y" [] c = "Z" -> "z"
      [] c = "&Aacute;" -> "&aacute;" [] c = "&Eacute;" -> "&eacute;"
      [] c = "&Iacute;" -> "&iacute;" [] c = "&Oacute;" -> "&oacute;"
      [] c = "&Uacute;" -> "&uacute;"
      [] OTHER -> c

\* unidecode() of one character: ASCII is kept, an accented letter loses
\* its accent, the guillemet becomes the two characters "<<"
UnidecodeChar(c) ==
    CASE c = "&aacute;" -> << "a" >>
      [] c = "&eacute;" -> << "e" >>
      [] c = "&iacute;" -> << "i" >>
      [] c = "&oacute;" -> << "o" >>
      [] c = "&uacute;" -> << "u" >>
      [] c = "&laquo;"  -> << "<", "<" >>
      [] OTHER          -> << c >>

\* unidecode(text.lower())
Normalize(s) == Flatten([k \in 1..Len(s) |-> UnidecodeChar(LowerChar(s[k]))])

----------------------------------------------------------------------------
(* Regular expressions of the module, each modelled by what it matches. *)

\* the character class [ ,]
Separators == {" ", ","}

\* the character class [A-Z] plus the five accented capitals of the guard
UpperCase == UpperAscii \cup {"&Aacute;", "&Eacute;", "&Iacute;", "&Oacute;", "&Uacute;"}

lit_estado      == << "e","s","t","a","d","o" >>
lit_Estado      == << "E","s","t","a","d","o" >>
lit_municipio   == << "m","u","n","i","c","i","p","i","o" >>
lit_Municipio   == << "M","u","n","i","c","i","p","i","o" >>
lit_de          == << " ","d","e" >>
lit_Ciudad      == << "C","i","u","d","a","d"," " >>
lit_Distrito    == << "D","i","s","t","r","i","t","o"," " >>

\* what (([eE]stados?|[mM]unicipios?) de|Ciudad |Distrito ) can match
ProbeCues ==
    { w \o lit_de : w \in {lit_estado, lit_Estado, lit_municipio, lit_Municipio} }
    \cup { w \o << "s" >> \o lit_de :
             w \in {lit_estado, lit_Estado, lit_municipio, lit_Municipio} }
    \cup { lit_Ciudad, lit_Distrito }

\* the probe with its group made optional: any space or comma matches
ProbeMatches_AnySeparator(s) ==
    \E i \in 0..(Len(s) - 1) : s[i + 1] \in Separators

\* re.search(r"[ ,](([eE]stados?|[mM]unicipios?) de|Ciudad |Distrito )", s)
\* is not None
ProbeMatches(s) ==
    \E i \in 0..(Len(s) - 1) :
        /\ s[i + 1] \in Separators
        /\ \E cue \in ProbeCues : OccursAt(s, cue, i + 1)

\* the guard with its leading space or comma optional
UpperCaseMatches_OptionalSeparator(s) ==
    LET body == IF s # << >> /\ s[1] \in Separators THEN Tail(s) ELSE s
    IN  /\ body # << >>
        /\ \/ body[1] \in UpperCase
           \/ \E w \in {lit_estado, lit_Estado, lit_municipio, lit_Municipio} :
                  OccursAt(body, w, 0)

\* re.search(r"^[ ,]([eE]stados?|[mM]unicipios?|[A-Z...])", s) is not None
UpperCaseMatches(s) ==
    /\ Len(s) >= 2
    /\ s[1] \in Separators
    /\ \/ s[2] \in UpperCase
       \/ \E w \in {lit_estado, lit_Estado, lit_municipio, lit_Municipio} :
              OccursAt(s, w, 1)

\* the regex templates a caller passes as base_regex
BareTemplate == "{name_value}"
SepTemplate  == "[ ,]{name_value}"
CueTemplate  == "[ ,]((estados?|municipios?) de )?{name_value}"

\* the optional group of CueTemplate in the order the regex engine tries its
\* alternatives; the last one is the group left out
CuePrefixes ==
    << lit_estado \o << "s" >> \o lit_de \o << " " >>,
       lit_estado \o lit_de \o << " " >>,
       lit_municipio \o << "s" >> \o lit_de \o << " " >>,
       lit_municipio \o lit_de \o << " " >>,
       << >> >>

\* end offset of the match of base_regex.format(name_value=value_str) that
\* starts at offset i of s, -1 when the regex does not match there
MatchEndAt(base_regex, value_str, s, i) ==
    IF base_regex = BareTemplate
    THEN IF OccursAt(s, value_str, i) THEN i + Len(value_str) ELSE -1
    ELSE IF ~(i < Len(s) /\ s[i + 1] \in Separators) THEN -1
    ELSE IF base_regex = SepTemplate
    THEN IF OccursAt(s, value_str, i + 1) THEN i + 1 + Len(value_str) ELSE -1
    ELSE LET ok == { k \in 1..Len(CuePrefixes) :
                       OccursAt(s, CuePrefixes[k] \o value_str, i + 1) }
         IN  IF ok = {} THEN -1
             ELSE LET k == CHOOSE m \in ok : \A n \in ok : m <= n
                  IN  i + 1 + Len(CuePrefixes[k]) + Len(value_str)

RECURSIVE FindIterFrom(_, _, _, _)
\* value_regex.finditer(search_text) from offset pos on: leftmost matches,
\* each search resuming where the previous match ended
FindIterFrom(base_regex, value_str, s, pos) ==
    IF pos >= Len(s) THEN << >>
    ELSE LET e == MatchEndAt(base_regex, value_str, s, pos)
         IN  IF e = -1
             THEN FindIterFrom(base_regex, value_str, s, pos + 1)
             ELSE << [start |-> pos, end |-> e] >>
                    \o FindIterFrom(base_regex, value_str, s, e)

FindIter(base_regex, value_str, s) == FindIterFrom(base_regex, value_str, s, 0)

\* re.search(f"<cue> .*? {place_name}", s): start of the leftmost match or
\* -1; cue is "[mM]unicipios de" or "[eE]stados de", given by its two
\* spellings.  "." matches every character but the line feed.
ContextStart(cues, place_name, s) ==
    LET tail  == << " " >> \o place_name
        hits  == { i \in 0..Len(s) :
                     \E cue \in cues :
                       /\ OccursAt(s, cue \o << " " >>, i)
                       /\ \E j \in (i + Len(cue) + 1)..Len(s) :
                            /\ OccursAt(s, tail, j)
                            /\ \A k \in (i + Len(cue) + 2)..j : s[k] # "\n" }
    IN  IF hits = {} THEN -1 ELSE CHOOSE i \in hits : \A h \in hits : i <= h

MunicipiosCue == { lit_municipio \o << "s" >> \o lit_de, lit_Municipio \o << "s" >> \o lit_de }
EstadosCue    == { lit_estado \o << "s" >> \o lit_de, lit_Estado \o << "s" >> \o lit_de }

----------------------------------------------------------------------------
(* Inputs: names, placeholders, category configurations and texts. *)

n_jalisco  == << "j","a","l","i","s","c","o" >>
n_campeche == << "c","a","m","p","e","c","h","e" >>
n_leon     == << "l","e","o","n" >>
n_campeche_leon == n_campeche \o << " " >> \o n_leon
n_leon_campeche == n_leon \o << " " >> \o n_campeche
n_estado_de_campeche == lit_estado \o lit_de \o << " " >> \o n_campeche

ph_ESTADO == << "[","E","S","T","A","D","O","]" >>
ph_CIUDAD == << "[","C","I","U","D","A","D","]" >>

\* one entry of inegi_replacements
Entry(names, regex, placeholder) ==
    [names_list |-> names, base_regex |-> regex, replacement |-> placeholder]

\* a well-formed inegi_replacements dict
Config(city, estate) ==
    [c \in {"city", "estate"} |-> IF c = "city" THEN city ELSE estate]

\* a dict with the single key c
OnlyKey(c, entry) == [k \in {c} |-> entry]

\* no city, the estate Jalisco, the cue words belong to the match
JaliscoConfig ==
    Config(Entry(<< >>, CueTemplate, ph_CIUDAD),
           Entry(<< n_jalisco >>, CueTemplate, ph_ESTADO))

\* one name that is a city and an estate
CampecheConfig ==
    Config(Entry(<< n_campeche >>, SepTemplate, ph_CIUDAD),
           Entry(<< n_campeche >>, SepTemplate, ph_ESTADO))

\* names that are prefixes and suffixes of other names
PrefixConfig ==
    Config(Entry(<< n_campeche_leon, n_campeche, n_leon >>, SepTemplate, ph_CIUDAD),
           Entry(<< n_leon_campeche >>, SepTemplate, ph_ESTADO))

\* a different template per category, placeholders that carry a space
CueConfig ==
    Config(Entry(<< n_campeche, n_campeche_leon >>, SepTemplate, << " " >> \o ph_CIUDAD),
           Entry(<< n_campeche, n_estado_de_campeche, n_leon >>, CueTemplate,
                 << " " >> \o ph_ESTADO))

\* a template without separator; a name that ends another, listed first
BareConfig ==
    Config(Entry(<< n_campeche >>, BareTemplate, ph_CIUDAD),
           Entry(<< n_leon, n_campeche_leon >>, SepTemplate, ph_ESTADO))

NoCityConfig   == OnlyKey("estate", Entry(<< n_campeche >>, SepTemplate, ph_ESTADO))
NoEstateConfig == OnlyKey("city", Entry(<< n_campeche >>, SepTemplate, ph_CIUDAD))

Configs ==
    { JaliscoConfig, CampecheConfig, PrefixConfig, CueConfig, BareConfig,
      NoCityConfig, NoEstateConfig }

f_Estado_de     == << " " >> \o lit_Estado \o lit_de
f_estados_de    == << " " >> \o lit_estado \o << "s" >> \o lit_de
f_municipios_de == << " " >> \o lit_municipio \o << "s" >> \o lit_de
f_Campeche      == << " ","C","a","m","p","e","c","h","e" >>
f_campeche      == << " " >> \o n_campeche
f_Leon          == << " ","L","e","&oacute;","n" >>
f_laquo         == << "&laquo;" >>

Fragments ==
    { f_Estado_de, f_estados_de, f_municipios_de, f_Campeche, f_campeche,
      f_Leon }

\* "El diputado viaj&oacute; al Estado de Jalisco para dar un discurso."
JaliscoText ==
    << "E","l"," ","d","i","p","u","t","a","d","o"," ",
       "v","i","a","j","&oacute;"," ","a","l" >>
    \o f_Estado_de \o << " ","J","a","l","i","s","c","o" >>
    \o << " ","p","a","r","a"," ","d","a","r"," ","u","n"," ",
          "d","i","s","c","u","r","s","o","." >>

\* " estados de Le&oacute;n municipios de Le&oacute;n Campeche"
BothCuesText ==
    f_estados_de \o f_Leon \o f_municipios_de \o f_Leon \o f_Campeche

\* " municipios de estados de municipios de Le&oacute;n Campeche"
ThreeCuesText ==
    f_municipios_de \o f_estados_de \o f_municipios_de \o f_Leon \o f_Campeche

\* "&laquo; Estado de Le&oacute;n": unidecode writes "&laquo;" as two characters
LaquoText == f_laquo \o f_Estado_de \o f_Leon

RECURSIVE FragmentTexts(_)
\* the concatenations of at most n fragments
FragmentTexts(n) ==
    IF n = 0 THEN { << >> }
    ELSE LET shorter == FragmentTexts(n - 1)
         IN  shorter \cup { t \o f : t \in shorter, f \in Fragments }

Texts == FragmentTexts(MaxFrags) \cup { JaliscoText, BothCuesText, ThreeCuesText, LaquoText }

----------------------------------------------------------------------------
(* find_matches_positions, one loop step per action. *)

\* index of the entry of the dict d whose key is end_pos, 0 when there is none
KeyIndex(d, end_pos) ==
    LET ks == { k \in 1..Len(d) : d[k].end = end_pos }
    IN  IF ks = {} THEN 0 ELSE CHOOSE k \in ks : TRUE

\* the tie rule without the start comparison: an end_pos already recorded
\* keeps its entry
AddPosData_KeepRecorded(d, start_pos, end_pos) ==
    KeyIndex(d, end_pos) = 0

\* the comparison of line 38 as >=: of two matches of the same span the
\* one recorded first stays
AddPosData_EqualKeepsRecorded(d, start_pos, end_pos) ==
    LET k == KeyIndex(d, end_pos)
    IN  IF k = 0 THEN TRUE ELSE ~(start_pos >= d[k].start)

\* lines 35-41: whether the match replaces or adds the entry of its end_pos
AddPosData(d, start_pos, end_pos) ==
    LET k == KeyIndex(d, end_pos)
    IN  IF k = 0 THEN TRUE ELSE ~(start_pos > d[k].start)

\* a list in place of the dict: every stored match is a new entry
StoreMatch_AlwaysAppends(d, start_pos, end_pos, value_str) ==
    Append(d, [start |-> start_pos, end |-> end_pos, place_name |-> value_str])

\* lines 43-50: found_matches_pos[end_pos] = {...}; a key already present
\* keeps its place in the dict
StoreMatch(d, start_pos, end_pos, value_str) ==
    LET k     == KeyIndex(d, end_pos)
        entry == [start |-> start_pos, end |-> end_pos, place_name |-> value_str]
    IN  IF k = 0 THEN Append(d, entry) ELSE [d EXCEPT ![k] = entry]

RECURSIVE VisitMatches(_, _, _)
\* lines 31-50 for all the matches of one name, in finditer order
VisitMatches(d, matches, value_str) ==
    IF matches = << >> THEN d
    ELSE LET match == Head(matches)
             next  == IF AddPosData(d, match.start, match.end)
                      THEN StoreMatch(d, match.start, match.end, value_str)
                      ELSE d
         IN  VisitMatches(next, Tail(matches), value_str)

\* lines 26-31: every name of names_list with the matches finditer gives
\* it in s
NamesWithMatches(s, names_list, base_regex) ==
    << >> \o [k \in DOMAIN names_list |->
                [value_str |-> names_list[k],
                 matches   |-> FindIter(base_regex, names_list[k], s)]]

RECURSIVE VisitNames(_, _)
\* lines 26-50 for the names of found, in list order
VisitNames(d, found) ==
    IF found = << >> THEN d
    ELSE VisitNames(VisitMatches(d, Head(found).matches, Head(found).value_str),
                    Tail(found))

\* find_matches_positions as a function of its arguments: the values of the
\* dict, in insertion order
find_matches_positions(s, names_list, base_regex) ==
    VisitNames(<< >>, NamesWithMatches(s, names_list, base_regex))

\* the entry of inegi_replacements the running call was given
CurrentEntry == inegi_replacements[category]

\* CallFind with the lookup replaced by a dict.get: a missing category is
\* searched with no names
CallFind_MissingIsEmpty ==
    /\ pc = "call_find"
    /\ IF category \in DOMAIN inegi_replacements
       THEN /\ pc' = "find_loop"
            /\ UNCHANGED << category, cities_pos >>
       ELSE /\ pc' = IF category = "city" THEN "call_find" ELSE "resolve"
            /\ category' = "estate"
            /\ cities_pos' = IF category = "city" THEN << >> ELSE cities_pos
    /\ found_matches_pos' = << >>
    /\ value_idx' = 0
    /\ pending' = << >>
    /\ UNCHANGED << netVars, other, text, inegi_replacements, search_text, estates_pos,
                    total_replacements, row_idx, last_end, clean_text,
                    result, raised, calls >>

\* lines 122 and 125: inegi_replacements[category] is looked up and
\* find_matches_positions is entered; a missing key raises KeyError
CallFind ==
    /\ pc = "call_find"
    /\ IF category \in DOMAIN inegi_replacements
       THEN /\ pc' = "find_loop"
            /\ found_matches_pos' = << >>
            /\ value_idx' = 0
            /\ pending' = << >>
            /\ UNCHANGED raised
       ELSE /\ pc' = "raised"
            /\ raised' = "KeyError"
            /\ UNCHANGED << found_matches_pos, value_idx, pending >>
    /\ UNCHANGED << netVars, other, text, inegi_replacements, search_text, category, cities_pos,
                    estates_pos, total_replacements, row_idx, last_end,
                    clean_text, result, calls >>

\* lines 26-31: the next name is taken and its regex is run over search_text
NextValue ==
    /\ pc = "find_loop"
    /\ pending = << >>
    /\ value_idx < Len(CurrentEntry.names_list)
    /\ value_idx' = value_idx + 1
    /\ pending' = FindIter(CurrentEntry.base_regex,
                            CurrentEntry.names_list[value_idx + 1], search_text)
    /\ UNCHANGED << netVars, other, text, inegi_replacements, pc, search_text, category,
                    found_matches_pos, cities_pos, estates_pos,
                    total_replacements, row_idx, last_end, clean_text, result,
                    raised, calls >>

\* lines 31-50: one match of the current name is visited
AddMatch ==
    /\ pc = "find_loop"
    /\ pending # << >>
    /\ LET match     == Head(pending)
           value_str == CurrentEntry.names_list[value_idx]
       IN  found_matches_pos' =
             IF AddPosData(found_matches_pos, match.start, match.end)
             THEN StoreMatch(found_matches_pos, match.start, match.end, value_str)
             ELSE found_matches_pos
    /\ pending' = Tail(pending)
    /\ UNCHANGED << netVars, other, text, inegi_replacements, pc, search_text, category,
                    value_idx, cities_pos, estates_pos, total_replacements,
                    row_idx, last_end, clean_text, result, raised, calls >>

\* line 52 and lines 123, 126: the dict's values become the rows of
\* cities_df or estates_df
ReturnFind ==
    /\ pc = "find_loop"
    /\ pending = << >>
    /\ value_idx = Len(CurrentEntry.names_list)
    /\ IF category = "city"
       THEN /\ cities_pos' = found_matches_pos
            /\ category' = "estate"
            /\ pc' = "call_find"
            /\ UNCHANGED estates_pos
       ELSE /\ estates_pos' = found_matches_pos
            /\ pc' = "resolve"
            /\ UNCHANGED << cities_pos, category >>
    /\ UNCHANGED << netVars, other, text, inegi_replacements, search_text, value_idx, pending,
                    found_matches_pos, total_replacements, row_idx, last_end,
                    clean_text, result, raised, calls >>

----------------------------------------------------------------------------
(* define_place_type and lines 128-175 of replace_places_by_flag. *)

\* define_place_type with the two start comparisons exchanged: the shorter
\* match wins
define_place_type_ShorterWins(row, s) ==
    LET type ==
          IF row.start_city > row.start_estate THEN "city"
          ELSE IF row.start_estate > row.start_city THEN "estate"
          ELSE LET city_start   == ContextStart(MunicipiosCue, row.place_name_city,
                                                Slice(s, 0, row.end))
                   estate_start == ContextStart(EstadosCue, row.place_name_city,
                                                Slice(s, 0, row.end))
               IN  IF city_start > estate_start THEN "city" ELSE "estate"
    IN  [start |-> IF type = "city" THEN row.start_city ELSE row.start_estate,
         end   |-> row.end,
         type  |-> type]

\* define_place_type with the two context searches exchanged
define_place_type_CuesExchanged(row, s) ==
    LET type ==
          IF row.start_city < row.start_estate THEN "city"
          ELSE IF row.start_estate < row.start_city THEN "estate"
          ELSE LET city_start   == ContextStart(EstadosCue, row.place_name_city,
                                                Slice(s, 0, row.end))
                   estate_start == ContextStart(MunicipiosCue, row.place_name_city,
                                                Slice(s, 0, row.end))
               IN  IF city_start > estate_start THEN "city" ELSE "estate"
    IN  [start |-> IF type = "city" THEN row.start_city ELSE row.start_estate,
         end   |-> row.end,
         type  |-> type]

\* define_place_type with >= in the last comparison: a tie without cue
\* becomes a city
define_place_type_CityOnEqual(row, s) ==
    LET type ==
          IF row.start_city < row.start_estate THEN "city"
          ELSE IF row.start_estate < row.start_city THEN "estate"
          ELSE LET city_start   == ContextStart(MunicipiosCue, row.place_name_city,
                                                Slice(s, 0, row.end))
                   estate_start == ContextStart(EstadosCue, row.place_name_city,
                                                Slice(s, 0, row.end))
               IN  IF city_start >= estate_start THEN "city" ELSE "estate"
    IN  [start |-> IF type = "city" THEN row.start_city ELSE row.start_estate,
         end   |-> row.end,
         type  |-> type]

\* define_place_type: row is a row of the inner merge on "end"
\* define_place_type with the cues searched in the text as it was given,
\* not in the copy it is handed
define_place_type_OriginalText(row, s) ==
    LET type ==
          IF row.start_city < row.start_estate THEN "city"
          ELSE IF row.start_estate < row.start_city THEN "estate"
          ELSE LET city_start   == ContextStart(MunicipiosCue, row.place_name_city,
                                                Slice(text, 0, row.end))
                   estate_start == ContextStart(EstadosCue, row.place_name_city,
                                                Slice(text, 0, row.end))
               IN  IF city_start > estate_start THEN "city" ELSE "estate"
    IN  [start |-> IF type = "city" THEN row.start_city ELSE row.start_estate,
         end   |-> row.end,
         type  |-> type]

define_place_type(row, s) ==
    LET type ==
          IF row.start_city < row.start_estate THEN "city"
          ELSE IF row.start_estate < row.start_city THEN "estate"
          ELSE LET city_start   == ContextStart(MunicipiosCue, row.place_name_city,
                                                Slice(s, 0, row.end))
                   estate_start == ContextStart(EstadosCue, row.place_name_city,
                                                Slice(s, 0, row.end))
               IN  IF city_start > estate_start THEN "city" ELSE "estate"
    IN  [start |-> IF type = "city" THEN row.start_city ELSE row.start_estate,
         end   |-> row.end,
         type  |-> type]

Ends(rows) == { rows[k].end : k \in DOMAIN rows }

\* the rows with their "type" column set
Typed(rows, type) ==
    [k \in DOMAIN rows |-> [start |-> rows[k].start, end |-> rows[k].end, type |-> type]]

\* cities_df.merge(estates_df, how="inner", on=["end"], suffixes=...)
Merge(cities, estates) ==
    LET joined(k) ==
          LET e == estates[KeyIndex(estates, cities[k].end)]
          IN  [start_city |-> cities[k].start, start_estate |-> e.start,
               end |-> cities[k].end,
               place_name_city |-> cities[k].place_name,
               place_name_estate |-> e.place_name]
        keep == SelectSeq([k \in DOMAIN cities |-> k],
                          LAMBDA k : cities[k].end \in Ends(estates))
    IN  [i \in DOMAIN keep |-> joined(keep[i])]

\* lines 128-172 without the isin filter of line 144: the estate matches
\* that share their end with a city match are kept next to the resolved row
TotalReplacements_AllEstates(cities, estates, s) ==
    IF cities # << >> /\ estates # << >>
    THEN LET duplicate_replacements == Merge(cities, estates)
         IN  IF duplicate_replacements # << >>
             THEN LET unique_cities  == SelectSeq(Typed(cities, "city"),
                                          LAMBDA r : r.end \notin Ends(estates))
                  IN  unique_cities \o Typed(estates, "estate")
                        \o [k \in DOMAIN duplicate_replacements |->
                              define_place_type(duplicate_replacements[k], s)]
             ELSE Typed(cities, "city") \o Typed(estates, "estate")
    ELSE IF cities # << >> THEN Typed(cities, "city")
    ELSE IF estates # << >> THEN Typed(estates, "estate")
    ELSE << >>

\* lines 128-172: the rows of total_replacements before sort_values
TotalReplacements(cities, estates, s) ==
    IF cities # << >> /\ estates # << >>
    THEN LET duplicate_replacements == Merge(cities, estates)
         IN  IF duplicate_replacements # << >>
             THEN LET unique_cities  == SelectSeq(Typed(cities, "city"),
                                          LAMBDA r : r.end \notin Ends(estates))
                      unique_estates == SelectSeq(Typed(estates, "estate"),
                                          LAMBDA r : r.end \notin Ends(cities))
                  IN  unique_cities \o unique_estates
                        \o [k \in DOMAIN duplicate_replacements |->
                              define_place_type(duplicate_replacements[k], s)]
             ELSE Typed(cities, "city") \o Typed(estates, "estate")
    ELSE IF cities # << >> THEN Typed(cities, "city")
    ELSE IF estates # << >> THEN Typed(estates, "estate")
    ELSE << >>

RECURSIVE SortedOrders(_)
\* sort_values(by=["start"]) with the default, unstable sort: every order
\* of the rows that is ascending in start
SortedOrders(rows) ==
    IF rows = {} THEN { << >> }
    ELSE LET first == { r \in rows : \A q \in rows : r.start <= q.start }
         IN  UNION { { << r >> \o rest : rest \in SortedOrders(rows \ {r}) } : r \in first }

\* lines 128-179: the replacements are built and sorted, the loop starts
Resolve ==
    /\ pc = "resolve"
    /\ LET rows == TotalReplacements(cities_pos, estates_pos, search_text)
       IN  total_replacements' \in SortedOrders({ rows[k] : k \in DOMAIN rows })
    /\ row_idx' = 0
    /\ last_end' = 0
    /\ clean_text' = << >>
    /\ pc' = "replace"
    /\ UNCHANGED << netVars, other, text, inegi_replacements, search_text, category, value_idx,
                    pending, found_matches_pos, cities_pos, estates_pos,
                    result, raised, calls >>

----------------------------------------------------------------------------
(* replace_places_by_flag: the probe, the replacement loop and the return. *)

\* lines 115-120: the cue probe; a text without cue is returned at once,
\* otherwise the text is lower-cased and stripped of accents
Probe ==
    /\ pc = "probe"
    /\ IF ~ProbeMatches(text)
       THEN /\ result' = text
            /\ pc' = "done"
            /\ UNCHANGED << search_text, category >>
       ELSE /\ search_text' = Normalize(text)
            /\ category' = "city"
            /\ pc' = "call_find"
            /\ UNCHANGED result
    /\ UNCHANGED << netVars, other, text, inegi_replacements, value_idx, pending,
                    found_matches_pos, cities_pos, estates_pos,
                    total_replacements, row_idx, last_end, clean_text,
                    raised, calls >>

\* the loop step with the span's first character kept in front of the
\* placeholder
ReplaceRow_KeepsSeparator ==
    /\ pc = "replace"
    /\ row_idx < Len(total_replacements)
    /\ LET row == total_replacements[row_idx + 1]
       IN  /\ clean_text' =
                IF ~UpperCaseMatches(Slice(text, row.start, row.end))
                THEN clean_text \o Slice(text, last_end, row.end)
                ELSE clean_text \o Slice(text, last_end, row.start + 1)
                       \o inegi_replacements[row.type].replacement
           /\ last_end' = row.end
    /\ row_idx' = row_idx + 1
    /\ UNCHANGED << netVars, other, text, inegi_replacements, pc, search_text, category,
                    value_idx, pending, found_matches_pos, cities_pos,
                    estates_pos, total_replacements, result, raised, calls >>

\* the loop step without line 190: last_end stays where it was
ReplaceRow_StaleLastEnd ==
    /\ pc = "replace"
    /\ row_idx < Len(total_replacements)
    /\ LET row == total_replacements[row_idx + 1]
       IN  clean_text' =
             IF ~UpperCaseMatches(Slice(text, row.start, row.end))
             THEN clean_text \o Slice(text, last_end, row.end)
             ELSE clean_text \o Slice(text, last_end, row.start)
                    \o inegi_replacements[row.type].replacement
    /\ row_idx' = row_idx + 1
    /\ UNCHANGED << netVars, other, text, inegi_replacements, pc, search_text, category,
                    value_idx, pending, found_matches_pos, cities_pos,
                    estates_pos, total_replacements, last_end, result,
                    raised, calls >>

\* lines 180-190: one row of total_replacements is applied
ReplaceRow ==
    /\ pc = "replace"
    /\ row_idx < Len(total_replacements)
    /\ LET row == total_replacements[row_idx + 1]
       IN  /\ clean_text' =
                IF ~UpperCaseMatches(Slice(text, row.start, row.end))
                THEN clean_text \o Slice(text, last_end, row.end)
                ELSE clean_text \o Slice(text, last_end, row.start)
                       \o inegi_replacements[row.type].replacement
           /\ last_end' = row.end
    /\ row_idx' = row_idx + 1
    /\ UNCHANGED << netVars, other, text, inegi_replacements, pc, search_text, category,
                    value_idx, pending, found_matches_pos, cities_pos,
                    estates_pos, total_replacements, result, raised, calls >>

\* Finish without line 193: the end of the text is not added
Finish_NoTail ==
    /\ pc = "replace"
    /\ row_idx = Len(total_replacements)
    /\ result' = clean_text
    /\ pc' = "done"
    /\ UNCHANGED << netVars, other, text, inegi_replacements, search_text, category, value_idx,
                    pending, found_matches_pos, cities_pos, estates_pos,
                    total_replacements, row_idx, last_end, clean_text,
                    raised, calls >>

\* lines 192-195: the end of the text is added and clean_text is returned
Finish ==
    /\ pc = "replace"
    /\ row_idx = Len(total_replacements)
    /\ result' = clean_text \o SliceFrom(text, last_end)
    /\ pc' = "done"
    /\ UNCHANGED << netVars, other, text, inegi_replacements, search_text, category, value_idx,
                    pending, found_matches_pos, cities_pos, estates_pos,
                    total_replacements, row_idx, last_end, clean_text,
                    raised, calls >>

\* the caller passes the returned string to replace_places_by_flag again,
\* with the same inegi_replacements
Reapply ==
    /\ pc = "done"
    /\ calls < MaxCalls
    /\ text' = result
    /\ calls' = calls + 1
    /\ pc' = "probe"
    /\ search_text' = << >>
    /\ category' = "city"
    /\ value_idx' = 0
    /\ pending' = << >>
    /\ found_matches_pos' = << >>
    /\ cities_pos' = << >>
    /\ estates_pos' = << >>
    /\ total_replacements' = << >>
    /\ row_idx' = 0
    /\ last_end' = 0
    /\ clean_text' = << >>
    /\ result' = << >>
    /\ UNCHANGED << netVars, inegi_replacements, raised, other >>

----------------------------------------------------------------------------
(* replace_places_by_flag as a function of its arguments. *)

RECURSIVE WalkRows(_, _, _, _, _)
\* lines 178-195 for the rows of a sorted total_replacements
WalkRows(t, cfg, rows, last, clean) ==
    IF rows = << >> THEN clean \o SliceFrom(t, last)
    ELSE LET row == Head(rows)
             written ==
               IF ~UpperCaseMatches(Slice(t, row.start, row.end))
               THEN clean \o Slice(t, last, row.end)
               ELSE clean \o Slice(t, last, row.start)
                      \o cfg[row.type].replacement
         IN  WalkRows(t, cfg, Tail(rows), row.end, written)

\* lines 120-195, the call past the cue probe: the returned string or the
\* exception, one outcome for every order sort_values may leave equal
\* starts in
FullPipeline(t, cfg) ==
    IF ~({"city", "estate"} \subseteq DOMAIN cfg)
    THEN { [result |-> << >>, raised |-> "KeyError"] }
    ELSE LET s       == Normalize(t)
             cities  == find_matches_positions(s, cfg.city.names_list,
                                               cfg.city.base_regex)
             estates == find_matches_positions(s, cfg.estate.names_list,
                                               cfg.estate.base_regex)
             rows    == TotalReplacements(cities, estates, s)
         IN  { [result |-> WalkRows(t, cfg, sorted, 0, << >>), raised |-> "none"] :
                 sorted \in SortedOrders({ rows[k] : k \in DOMAIN rows }) }

\* the outcomes of one call run on its own
replace_places_by_flag(t, cfg) ==
    IF ~ProbeMatches(t)
    THEN { [result |-> t, raised |-> "none"] }
    ELSE FullPipeline(t, cfg)

----------------------------------------------------------------------------
(* Two invocations, interleaved. *)

\* the local variables of the running invocation
Locals ==
    [text |-> text, pc |-> pc, search_text |-> search_text,
     category |-> category, value_idx |-> value_idx, pending |-> pending,
     found_matches_pos |-> found_matches_pos, cities_pos |-> cities_pos,
     estates_pos |-> estates_pos, total_replacements |-> total_replacements,
     row_idx |-> row_idx, last_end |-> last_end, clean_text |-> clean_text,
     result |-> result, raised |-> raised]

\* the local variables of an invocation called with the text t, before its
\* first step
InitialLocals(t) ==
    [text |-> t, pc |-> "probe", search_text |-> << >>, category |-> "city",
     value_idx |-> 0, pending |-> << >>, found_matches_pos |-> << >>,
     cities_pos |-> << >>, estates_pos |-> << >>,
     total_replacements |-> << >>, row_idx |-> 0, last_end |-> 0,
     clean_text |-> << >>, result |-> << >>, raised |-> "none"]

\* a scheduler that hands one dict of matches to both invocations: the
\* switch leaves found_matches_pos where it is
Switch_SharedMatches ==
    /\ other.pc \notin {"done", "raised"}
    /\ other' = [Locals EXCEPT !.found_matches_pos = other.found_matches_pos]
    /\ text' = other.text
    /\ pc' = other.pc
    /\ search_text' = other.search_text
    /\ category' = other.category
    /\ value_idx' = other.value_idx
    /\ pending' = other.pending
    /\ cities_pos' = other.cities_pos
    /\ estates_pos' = other.estates_pos
    /\ total_replacements' = other.total_replacements
    /\ row_idx' = other.row_idx
    /\ last_end' = other.last_end
    /\ clean_text' = other.clean_text
    /\ result' = other.result
    /\ raised' = other.raised
    /\ UNCHANGED << netVars, found_matches_pos, inegi_replacements, calls >>

\* the running invocation is suspended between two of its steps and the
\* other one goes on: every variable of lines 98-195 and 25-52 is local to
\* its invocation, the argument inegi_replacements is the caller's object
Switch ==
    /\ other.pc \notin {"done", "raised"}
    /\ other' = Locals
    /\ text' = other.text
    /\ pc' = other.pc
    /\ search_text' = other.search_text
    /\ category' = other.category
    /\ value_idx' = other.value_idx
    /\ pending' = other.pending
    /\ found_matches_pos' = other.found_matches_pos
    /\ cities_pos' = other.cities_pos
    /\ estates_pos' = other.estates_pos
    /\ total_replacements' = other.total_replacements
    /\ row_idx' = other.row_idx
    /\ last_end' = other.last_end
    /\ clean_text' = other.clean_text
    /\ result' = other.result
    /\ raised' = other.raised
    /\ UNCHANGED << netVars, inegi_replacements, calls >>

\* texts of the two invocations
PairTexts ==
    { f_Campeche,
      f_Estado_de \o f_Leon,
      f_Estado_de \o f_Campeche \o f_Leon,
      f_municipios_de \o f_Leon \o f_Campeche }

\* the configuration the two invocations are given
PairConfigs == { CampecheConfig, PrefixConfig, CueConfig, NoEstateConfig }

----------------------------------------------------------------------------
(* get_url of scrapers/news_scraper/utils/methods.py.                      *)

\* get_url is called with max_retries in 0 .. MaxRetries
MaxRetries == 3
\* the model follows a call for at most MaxRequests requests
MaxRequests == 6

\* a response is held as the one-element sequence of its status code
None == << >>
Response(status) == << status >>

\* values of the argument `method`: the two get_url knows and another one
Methods == { "GET", "POST", "PUT" }

\* status codes a response can carry: success, client error, the two ends
\* of the server errors, and a code above them
Statuses == { 200, 404, 500, 599, 600 }

\* requests.Response.raise_for_status raises for 400 <= status < 600
RaisesForStatus(status) == 400 <= status /\ status < 600

\* the finally clause: reading `retry` before any assignment raises
\* UnboundLocalError, which replaces the exception in flight
FinallyClause(retry_now, in_flight) ==
    /\ retry' = retry_now
    /\ num_try' = IF retry_now = "True" THEN num_try + 1 ELSE num_try
    /\ get_url_pc' = IF retry_now = "unbound" THEN "UnboundLocalError"
                     ELSE IF in_flight # "none" THEN in_flight
                     ELSE IF response' # None THEN "returned"
                     ELSE "loop"

\* one pass of the loop in which requests.get or requests.post raises
RequestRaises ==
    /\ get_url_pc = "loop"
    /\ method \in { "GET", "POST" }
    /\ Len(outcomes) < MaxRequests
    /\ outcomes' = Append(outcomes, None)
    /\ response' = response
    /\ IF num_try >= max_retries
       THEN FinallyClause(retry, "Exception")
       ELSE FinallyClause("True", "none")
    /\ UNCHANGED << method, max_retries, notUrl >>

\* one pass of the loop in which the request is answered
RequestAnswered ==
    /\ get_url_pc = "loop"
    /\ method \in { "GET", "POST" }
    /\ Len(outcomes) < MaxRequests
    /\ \E status \in Statuses :
        /\ outcomes' = Append(outcomes, Response(status))
        /\ IF status >= 500
           THEN IF num_try >= max_retries /\ RaisesForStatus(status)
                THEN /\ response' = Response(status)
                     /\ FinallyClause(retry, "HTTPError")
                ELSE /\ response' = None
                     /\ FinallyClause("True", "none")
           ELSE /\ response' = Response(status)
                /\ FinallyClause("False", "none")
    /\ UNCHANGED << method, max_retries, notUrl >>

\* one pass of the loop for a method that is neither GET nor POST: no
\* request is made and response.status_code is read on None
NoRequest ==
    /\ get_url_pc = "loop"
    /\ method \notin { "GET", "POST" }
    /\ response' = response
    /\ FinallyClause(retry, "AttributeError")
    /\ UNCHANGED << method, max_retries, outcomes, notUrl >>

\* get_url is not running
UrlIdle ==
    /\ method = "GET"
    /\ max_retries = 0
    /\ num_try = 0
    /\ response = None
    /\ retry = "unbound"
    /\ get_url_pc = "idle"
    /\ outcomes = << >>

----------------------------------------------------------------------------
(* write_to_json of scrapers/news_scraper/utils/methods.py.  A file is the *)
(* sequence of its tokens: "[", "]", "," and one token per article.        *)

\* write_to_json is called at most MaxWrites times on the path
MaxWrites == 4
\* a call passes a list of at most MaxArticles articles
MaxArticles == 2

Articles == { "a1", "a2" }

RECURSIVE ListsUpTo(_)
ListsUpTo(n) ==
    IF n = 0 THEN { << >> }
    ELSE LET shorter == ListsUpTo(n - 1)
         IN  shorter \cup { Append(l, a) : l \in shorter, a \in Articles }

\* json.dump(articles_data, outfile) of a list
RECURSIVE DumpItems(_)
DumpItems(articles_data) ==
    IF articles_data = << >> THEN << >>
    ELSE IF Len(articles_data) = 1 THEN articles_data
    ELSE << Head(articles_data), "," >> \o DumpItems(Tail(articles_data))

DumpList(articles_data) == << "[" >> \o DumpItems(articles_data) \o << "]" >>

\* the loop of lines 59-61: a comma, then the article
RECURSIVE AppendItems(_)
AppendItems(articles_data) ==
    IF articles_data = << >> THEN << >>
    ELSE << ",", Head(articles_data) >> \o AppendItems(Tail(articles_data))

\* write_to_json_safe holds the lock of the path around the whole call
write_to_json(articles_data) ==
    /\ writes < MaxWrites
    /\ outfile' =
          IF Len(outfile) > 0
          THEN SubSeq(outfile, 1, Len(outfile) - 1)
                   \o AppendItems(articles_data) \o << "]" >>
          ELSE DumpList(articles_data)
    /\ articles_written' = articles_written \o articles_data
    /\ writes' = writes + 1

WriteToJson ==
    /\ \E articles_data \in ListsUpTo(MaxArticles) : write_to_json(articles_data)
    /\ UNCHANGED notJson

\* write_to_json has not been called and the file is missing
JsonIdle ==
    /\ outfile = << >>
    /\ articles_written = << >>
    /\ writes = 0

----------------------------------------------------------------------------
(* get_section_data and process_batch_articles of animal_politico_bot.py,  *)
(* economista_bot.py and financiero_bot.py, for one section.  An article   *)
(* is its id.  `offset` is the page_num of El Economista.                  *)

\* get_section_data is called at most MaxRuns times
MaxRuns == 3
\* at most MaxBatches requests are issued over all the calls
MaxBatches == 3

\* utils/animal_politico_config.py and newspaper_config/financiero.py
BATCH_SIZE == 20

Bots == { "animal_politico", "el_economista", "el_financiero" }

\* articles dated END_YEAR or later that the site can list
ArticleIds == { 1, 2, 3 }

\* file_path of an article: the file of its month
file_path(id) == IF id = 3 THEN "2019/02.json" ELSE "2019/01.json"

FilePaths == << "2019/01.json", "2019/02.json" >>

\* np.inf
Inf == -1

\* total number of results a site reports
Totals == { 0, BATCH_SIZE, 2 * BATCH_SIZE }

\* groupby("file_path"): the groups in the order of their paths, empty
\* groups left out
RECURSIVE GroupsFrom(_, _)
GroupsFrom(ids, k) ==
    IF k > Len(FilePaths) THEN << >>
    ELSE LET group == { id \in ids : file_path(id) = FilePaths[k] }
         IN  ( IF group = {} THEN << >> ELSE << group >> )
                 \o GroupsFrom(ids, k + 1)

Groups(ids) == GroupsFrom(ids, 1)

\* first value of offset (page_num) when there is no checkpoint
FirstOffset == IF bot = "el_economista" THEN 1 ELSE 0

\* distance between two batches
Step == IF bot = "el_economista" THEN 1 ELSE BATCH_SIZE

Running == { "fetch", "write", "save_ids", "end_batch" }

\* get_section_data up to its loop: the ids and the checkpoint are read
StartRun ==
    /\ section_pc \notin Running
    /\ runs < MaxRuns
    /\ runs' = runs + 1
    /\ processed_ids' = ids_file
    /\ total_results' = Inf
    /\ IF checkpoint = None
       THEN /\ offset' = FirstOffset
            /\ section_pc' = "fetch"
       ELSE IF checkpoint[1] < 0
       THEN /\ offset' = offset
            /\ section_pc' = "returned"
       ELSE /\ offset' = checkpoint[1] + Step
            /\ section_pc' = "fetch"
    /\ UNCHANGED << bot, ids_file, checkpoint, written_count, groups,
                    batch_ids, updated_processed_ids, final_batch, has_next,
                    requests_made, notBots >>

\* the request of one batch raises: the request itself, raise_for_status,
\* or the "errors" key of the answer
FetchRaises ==
    /\ section_pc = "fetch"
    /\ requests_made < MaxBatches
    /\ requests_made' = requests_made + 1
    /\ section_pc' = "raised"
    /\ UNCHANGED << bot, ids_file, checkpoint, written_count, processed_ids,
                    offset, total_results, groups, batch_ids,
                    updated_processed_ids, final_batch, has_next, runs,
                    notBots >>

\* the request of one batch is answered with no results in the section
FetchNoResults ==
    /\ section_pc = "fetch"
    /\ requests_made < MaxBatches
    /\ total_results = Inf
    /\ bot # "el_economista"
    /\ requests_made' = requests_made + 1
    /\ total_results' = 0
    /\ IF bot = "animal_politico"
       THEN \* lines 297-301 and 321
            /\ offset' = offset - BATCH_SIZE
            /\ checkpoint' = Response(-(offset'))
            /\ section_pc' = "returned"
       ELSE \* the date of an empty frame cannot be read
            /\ offset' = offset
            /\ checkpoint' = checkpoint
            /\ section_pc' = "raised"
    /\ UNCHANGED << bot, ids_file, written_count, processed_ids, groups,
                    batch_ids, updated_processed_ids, final_batch, has_next,
                    runs, notBots >>

\* the request of one batch is answered with articles: process_batch_articles
\* up to its writing loop
FetchBatch ==
    /\ section_pc = "fetch"
    /\ requests_made < MaxBatches
    /\ requests_made' = requests_made + 1
    /\ \E items \in SUBSET ArticleIds, old \in BOOLEAN, next \in BOOLEAN,
          total \in Totals \ { 0 } :
        /\ items # {} \/ old
        /\ bot = "el_economista" \/ next
        /\ total_results' =
              IF bot # "el_economista" /\ total_results = Inf
              THEN total ELSE total_results
        /\ final_batch' = old
        /\ has_next' = next
        /\ batch_ids' = items \ processed_ids
        /\ groups' = Groups(batch_ids')
        /\ updated_processed_ids' = processed_ids
        /\ section_pc' = IF batch_ids' = {} THEN "end_batch" ELSE "write"
    /\ UNCHANGED << bot, ids_file, checkpoint, written_count, processed_ids,
                    offset, runs, notBots >>

\* write_to_json_safe of the next group
WriteGroup ==
    /\ section_pc = "write"
    /\ written_count' =
          [ id \in ArticleIds |->
              IF id \in Head(groups) THEN written_count[id] + 1
              ELSE written_count[id] ]
    /\ IF bot = "animal_politico"
       THEN /\ groups' = Tail(groups)
            /\ section_pc' = IF groups' = << >> THEN "save_ids" ELSE "write"
            /\ UNCHANGED updated_processed_ids
       ELSE /\ updated_processed_ids' = updated_processed_ids \cup Head(groups)
            /\ section_pc' = "save_ids"
            /\ UNCHANGED groups
    /\ UNCHANGED << bot, ids_file, checkpoint, processed_ids, offset,
                    total_results, batch_ids, final_batch, has_next,
                    requests_made, runs, notBots >>

\* save_processed_ids: the file is overwritten with the set it is given
SaveIds ==
    /\ section_pc = "save_ids"
    /\ IF bot = "animal_politico"
       THEN \* the parameter processed_ids of process_batch_articles is
            \* rebound, the set of get_section_data stays as it was
            /\ updated_processed_ids' = processed_ids \cup batch_ids
            /\ ids_file' = updated_processed_ids'
            /\ section_pc' = "end_batch"
            /\ UNCHANGED groups
       ELSE /\ ids_file' = updated_processed_ids
            /\ groups' = Tail(groups)
            /\ section_pc' = IF groups' = << >> THEN "end_batch" ELSE "write"
            /\ UNCHANGED updated_processed_ids
    /\ UNCHANGED << bot, checkpoint, written_count, processed_ids, offset,
                    total_results, batch_ids, final_batch, has_next,
                    requests_made, runs, notBots >>

\* get_section_data after process_batch_articles has returned, up to the
\* next request or the return
EndBatch ==
    /\ section_pc = "end_batch"
    /\ IF final_batch
       THEN /\ checkpoint' = Response(-offset)
            /\ section_pc' = "returned"
            /\ UNCHANGED << offset, processed_ids >>
       ELSE IF bot = "el_economista"
       THEN IF ~has_next
            THEN /\ checkpoint' = Response(-offset)
                 /\ section_pc' = "returned"
                 /\ UNCHANGED << offset, processed_ids >>
            ELSE /\ checkpoint' = Response(offset)
                 /\ offset' = offset + 1
                 /\ processed_ids' = updated_processed_ids
                 /\ section_pc' = "fetch"
       ELSE /\ offset' = offset + BATCH_SIZE
            /\ processed_ids' = IF bot = "animal_politico" THEN processed_ids
                                ELSE updated_processed_ids
            /\ IF offset' < total_results
               THEN /\ checkpoint' = Response(offset)
                    /\ section_pc' = "fetch"
               ELSE /\ checkpoint' = Response(-(offset'))
                    /\ section_pc' = "returned"
    /\ UNCHANGED << bot, ids_file, written_count, total_results, groups,
                    batch_ids, updated_processed_ids, final_batch, has_next,
                    requests_made, runs, notBots >>

\* the process is stopped between two steps of a call
Interrupt ==
    /\ section_pc \in Running
    /\ section_pc' = "interrupted"
    /\ UNCHANGED << bot, ids_file, checkpoint, written_count, processed_ids,
                    offset, total_results, groups, batch_ids,
                    updated_processed_ids, final_batch, has_next,
                    requests_made, runs, notBots >>

\* no call of get_section_data has been made: no ids file, no checkpoint,
\* no output file
BotsIdle ==
    /\ ids_file = {}
    /\ checkpoint = None
    /\ written_count = [ id \in ArticleIds |-> 0 ]
    /\ section_pc = "idle"
    /\ processed_ids = {}
    /\ offset = 0
    /\ total_results = Inf
    /\ groups = << >>
    /\ batch_ids = {}
    /\ updated_processed_ids = {}
    /\ final_batch = FALSE
    /\ has_next = FALSE
    /\ requests_made = 0
    /\ runs = 0

----------------------------------------------------------------------------
(* senate_bot of scrapers/senate_scraper/senate_bot.py.  A date is the     *)
(* number of days after 2018-09-01.                                        *)

\* LEGISLATURE_DATES of utils/config.py, in the order of the dict:
\* 2018-09-01 to 2021-08-31 and 2021-09-01 to 2024-08-31
LEGISLATURE_DATES ==
    << [ legis_number |-> "64", start_date |-> 0,    end_date |-> 1095 ],
       [ legis_number |-> "65", start_date |-> 1096, end_date |-> 2191 ] >>

\* dates senate_bot is called with: before, at the ends of and inside each
\* legislature, and after the last one
Dates == { -10, 0, 400, 1095, 1096, 1500, 2191, 2200 }

Max(a, b) == IF a >= b THEN a ELSE b

\* the two calls of load_legislature_data of one legislature
LoadCalls(legis_number, legis_start, legis_end) ==
    << [ legis_number |-> legis_number, comm_type |-> "iniciativas",
         start_date |-> legis_start, end_date |-> legis_end ],
       [ legis_number |-> legis_number, comm_type |-> "proposiciones",
         start_date |-> legis_start, end_date |-> legis_end ] >>

\* one pass of the loop whose condition holds
LoadLegislature ==
    /\ legis_idx < Len(LEGISLATURE_DATES)
    /\ LET legis == LEGISLATURE_DATES[legis_idx + 1]
       IN  /\ start_date <= legis.end_date /\ start_date >= legis.start_date
           /\ loads' = loads \o LoadCalls(legis.legis_number,
                                          Max(start_date, legis.start_date),
                                          Min(end_date, legis.end_date))
           /\ start_date' = legis.end_date + 1
    /\ legis_idx' = legis_idx + 1
    /\ UNCHANGED << end_date, requested_start, notSenate >>

\* one pass of the loop whose condition fails
SkipLegislature ==
    /\ legis_idx < Len(LEGISLATURE_DATES)
    /\ LET legis == LEGISLATURE_DATES[legis_idx + 1]
       IN  ~( start_date <= legis.end_date /\ start_date >= legis.start_date )
    /\ legis_idx' = legis_idx + 1
    /\ UNCHANGED << start_date, end_date, requested_start, loads, notSenate >>

\* senate_bot is not running
SenateIdle ==
    /\ start_date = 0
    /\ end_date = 0
    /\ requested_start = 0
    /\ legis_idx = Len(LEGISLATURE_DATES)
    /\ loads = << >>

\* replace_places_by_flag is not running
CleanIdle ==
    /\ text = << >>
    /\ inegi_replacements = NoCityConfig
    /\ pc = "done"
    /\ search_text = << >>
    /\ category = "city"
    /\ value_idx = 0
    /\ pending = << >>
    /\ found_matches_pos = << >>
    /\ cities_pos = << >>
    /\ estates_pos = << >>
    /\ total_replacements = << >>
    /\ row_idx = 0
    /\ last_end = 0
    /\ clean_text = << >>
    /\ result = << >>
    /\ raised = "none"
    /\ calls = 1
    /\ other = InitialLocals(<< >>)

\* a call of get_url, at the top of its loop
InitGetUrl ==
    /\ CleanIdle
    /\ JsonIdle
    /\ BotsIdle /\ bot = "animal_politico"
    /\ SenateIdle
    /\ method \in Methods
    /\ max_retries \in 0 .. MaxRetries
    /\ num_try = 0
    /\ response = None
    /\ retry = "unbound"
    /\ get_url_pc = "loop"
    /\ outcomes = << >>

NextGetUrl ==
    \/ RequestRaises
    \/ RequestAnswered
    \/ NoRequest

SpecGetUrl == InitGetUrl /\ [][NextGetUrl]_vars

\* the scrapers are not running
NetIdle ==
    UrlIdle /\ JsonIdle /\ BotsIdle /\ bot = "animal_politico" /\ SenateIdle

InitWriteToJson ==
    /\ CleanIdle
    /\ UrlIdle
    /\ JsonIdle
    /\ BotsIdle /\ bot = "animal_politico"
    /\ SenateIdle

\* the first call of a bot on a section, nothing on disk
InitBots ==
    /\ CleanIdle
    /\ UrlIdle
    /\ JsonIdle
    /\ BotsIdle
    /\ bot \in Bots
    /\ SenateIdle

NextBots ==
    \/ StartRun
    \/ FetchRaises
    \/ FetchNoResults
    \/ FetchBatch
    \/ WriteGroup
    \/ SaveIds
    \/ EndBatch

SpecBots == InitBots /\ [][NextBots]_vars

\* the same calls, with interruptions
NextBotsInterrupted ==
    \/ StartRun
    \/ FetchRaises
    \/ FetchNoResults
    \/ FetchBatch
    \/ WriteGroup
    \/ SaveIds
    \/ EndBatch
    \/ Interrupt

SpecBotsInterrupted == InitBots /\ [][NextBotsInterrupted]_vars

\* a call of senate_bot, before its loop
InitSenate ==
    /\ CleanIdle
    /\ UrlIdle
    /\ JsonIdle
    /\ BotsIdle /\ bot = "animal_politico"
    /\ start_date \in Dates
    /\ end_date \in Dates
    /\ requested_start = start_date
    /\ legis_idx = 0
    /\ loads = << >>

NextSenate ==
    \/ LoadLegislature
    \/ SkipLegislature

SpecSenate == InitSenate /\ [][NextSenate]_vars

NextWriteToJson == WriteToJson

SpecWriteToJson == InitWriteToJson /\ [][NextWriteToJson]_vars

----------------------------------------------------------------------------

Init ==
    /\ text \in Texts
    /\ inegi_replacements \in Configs
    /\ pc = "probe"
    /\ search_text = << >>
    /\ category = "city"
    /\ value_idx = 0
    /\ pending = << >>
    /\ found_matches_pos = << >>
    /\ cities_pos = << >>
    /\ estates_pos = << >>
    /\ total_replacements = << >>
    /\ row_idx = 0
    /\ last_end = 0
    /\ clean_text = << >>
    /\ result = << >>
    /\ raised = "none"
    /\ calls = 1
    /\ other = InitialLocals(<< >>)
    /\ NetIdle

\* two invocations with independent texts and one configuration
InitPair ==
    /\ text \in PairTexts
    /\ other \in { InitialLocals(t) : t \in PairTexts }
    /\ inegi_replacements \in PairConfigs
    /\ pc = "probe"
    /\ search_text = << >>
    /\ category = "city"
    /\ value_idx = 0
    /\ pending = << >>
    /\ found_matches_pos = << >>
    /\ cities_pos = << >>
    /\ estates_pos = << >>
    /\ total_replacements = << >>
    /\ row_idx = 0
    /\ last_end = 0
    /\ clean_text = << >>
    /\ result = << >>
    /\ raised = "none"
    /\ calls = 1
    /\ NetIdle

Next ==
    \/ Probe
    \/ CallFind
    \/ NextValue
    \/ AddMatch
    \/ ReturnFind
    \/ Resolve
    \/ ReplaceRow
    \/ Finish
    \/ Reapply

Spec == Init /\ [][Next]_vars

NextPair ==
    \/ Probe
    \/ CallFind
    \/ NextValue
    \/ AddMatch
    \/ ReturnFind
    \/ Resolve
    \/ ReplaceRow
    \/ Finish
    \/ Switch

SpecPair == InitPair /\ [][NextPair]_vars

TypeOK ==
    /\ pc \in {"probe", "call_find", "find_loop", "resolve", "replace", "done", "raised"}
    /\ category \in {"city", "estate"}
    /\ raised \in {"none", "KeyError"}
    /\ calls \in 1..MaxCalls

----------------------------------------------------------------------------
(* Properties. *)

WellFormed == DOMAIN inegi_replacements = {"city", "estate"}

\* "El diputado viaj&oacute; al [ESTADO] para dar un discurso."
JaliscoExpected ==
    << "E","l"," ","d","i","p","u","t","a","d","o"," ",
       "v","i","a","j","&oacute;"," ","a","l"," " >>
    \o ph_ESTADO
    \o << " ","p","a","r","a"," ","d","a","r"," ","u","n"," ",
          "d","i","s","c","u","r","s","o","." >>

\* C1: redacting the Jalisco sentence with an empty city list, the estate
\* list holding only Jalisco and the placeholder "[ESTADO]" returns the
\* sentence with "Estado de Jalisco" replaced by "[ESTADO]" and the space in
\* front of it kept.
C1_EndToEnd ==
    ( /\ calls = 1
      /\ pc \in {"done", "raised"}
      /\ text = JaliscoText
      /\ inegi_replacements = JaliscoConfig )
    => ( pc = "done" /\ result = JaliscoExpected )


\* the cue words of the probe, spelled out
CueWords ==
    { << "e","s","t","a","d","o"," ","d","e" >>,
      << "e","s","t","a","d","o","s"," ","d","e" >>,
      << "E","s","t","a","d","o"," ","d","e" >>,
      << "E","s","t","a","d","o","s"," ","d","e" >>,
      << "m","u","n","i","c","i","p","i","o"," ","d","e" >>,
      << "m","u","n","i","c","i","p","i","o","s"," ","d","e" >>,
      << "M","u","n","i","c","i","p","i","o"," ","d","e" >>,
      << "M","u","n","i","c","i","p","i","o","s"," ","d","e" >>,
      << "C","i","u","d","a","d"," " >>,
      << "D","i","s","t","r","i","t","o"," " >> }

\* some space or comma of s is followed by a cue word
CueInText(s) ==
    \E i \in 1..Len(s) :
        /\ s[i] \in {" ", ","}
        /\ \E w \in CueWords : OccursAt(s, w, i)

\* some name of some list matches somewhere in the normalized text
SomeNameMatches(s) ==
    \E c \in DOMAIN inegi_replacements :
        \E k \in DOMAIN inegi_replacements[c].names_list :
            FindIter(inegi_replacements[c].base_regex,
                     inegi_replacements[c].names_list[k], Normalize(s)) # << >>

\* C2: a text in which no space or comma is followed by a cue word is
\* returned identical to the input, whatever the lists, templates and
\* placeholders are; the call reads nothing else and raises nothing.
C2_NoOpOnAbsence ==
    ~CueInText(text)
    => /\ pc \in {"probe", "done"}
       /\ raised = "none"
       /\ pc = "done" => result = text

\* a text without cue that holds a listed name has been returned
C2_Witness ==
    /\ pc = "done"
    /\ ~CueInText(text)
    /\ SomeNameMatches(text)
    /\ result = text

\* the rows of total_replacements that end at offset e
RowsEndingAt(e) ==
    { k \in DOMAIN total_replacements : total_replacements[k].end = e }

\* C3: when a city match and an estate match end at the same offset with
\* different starts, the one replacement for that end offset has the start
\* and the category of the match with the smaller start.
C3_LongerMatchWins ==
    pc \in {"replace", "done"}
    => \A i \in DOMAIN cities_pos : \A j \in DOMAIN estates_pos :
         ( cities_pos[i].end = estates_pos[j].end
           /\ cities_pos[i].start # estates_pos[j].start )
         => /\ Cardinality(RowsEndingAt(cities_pos[i].end)) = 1
            /\ \A k \in RowsEndingAt(cities_pos[i].end) :
                 IF cities_pos[i].start < estates_pos[j].start
                 THEN /\ total_replacements[k].type = "city"
                      /\ total_replacements[k].start = cities_pos[i].start
                 ELSE /\ total_replacements[k].type = "estate"
                      /\ total_replacements[k].start = estates_pos[j].start

\* both directions occur in one resolved call
C3_Witness ==
    /\ pc = "replace"
    /\ \E i \in DOMAIN cities_pos : \E j \in DOMAIN estates_pos :
         /\ cities_pos[i].end = estates_pos[j].end
         /\ cities_pos[i].start < estates_pos[j].start
    /\ \E i \in DOMAIN cities_pos : \E j \in DOMAIN estates_pos :
         /\ cities_pos[i].end = estates_pos[j].end
         /\ estates_pos[j].start < cities_pos[i].start


w_municipios_de == << "m","u","n","i","c","i","p","i","o","s"," ","d","e" >>
w_estados_de    == << "e","s","t","a","d","o","s"," ","d","e" >>

\* the pairs (city match, estate match) that cover the same span with the
\* same name
ExactTies ==
    { p \in (DOMAIN cities_pos) \X (DOMAIN estates_pos) :
        /\ cities_pos[p[1]].end = estates_pos[p[2]].end
        /\ cities_pos[p[1]].start = estates_pos[p[2]].start
        /\ cities_pos[p[1]].place_name = estates_pos[p[2]].place_name }

\* the cue word w occurs in the searched text before offset e
CueBefore(w, e) ==
    \E i \in 0..e : i + Len(w) <= e /\ Slice(search_text, i, i + Len(w)) = w

\* the name that ends at offset e follows the cue word w and one space
CueRightBefore(w, name, e) ==
    LET at == e - Len(name) - 1 - Len(w)
    IN  at >= 0 /\ Slice(search_text, at, e) = w \o << " " >> \o name

\* the category given to the replacement that ends at offset e
CategoryAt(e) ==
    { total_replacements[k].type : k \in RowsEndingAt(e) }

\* C4: in an exact tie, a name that directly follows "municipios de " with
\* no "estados de" before it is classified as city.
C4_TieCityCue ==
    pc \in {"replace", "done"}
    => \A p \in ExactTies :
         LET c == cities_pos[p[1]]
         IN  ( CueRightBefore(w_municipios_de, c.place_name, c.end)
               /\ ~CueBefore(w_estados_de, c.end) )
             => CategoryAt(c.end) = {"city"}

\* C5: in an exact tie, a name preceded by an "estados de" cue and by no
\* "municipios de" cue is classified as estate.
C5_TieEstateCue ==
    pc \in {"replace", "done"}
    => \A p \in ExactTies :
         LET c == cities_pos[p[1]]
         IN  ( CueBefore(w_estados_de, c.end - Len(c.place_name))
               /\ ~CueBefore(w_municipios_de, c.end) )
             => CategoryAt(c.end) = {"estate"}

\* "estados de Campeche": the cue directly in front of a tied name
C5_Witness ==
    /\ pc = "replace"
    /\ \E p \in ExactTies :
         LET c == cities_pos[p[1]]
         IN  /\ CueRightBefore(w_estados_de, c.place_name, c.end)
             /\ ~CueBefore(w_municipios_de, c.end)
             /\ CategoryAt(c.end) = {"estate"}

\* C6: in an exact tie with neither cue before the match, the replacement
\* is classified as estate.
C6_TieDefault ==
    pc \in {"replace", "done"}
    => \A p \in ExactTies :
         LET c == cities_pos[p[1]]
         IN  ( ~CueBefore(w_estados_de, c.end)
               /\ ~CueBefore(w_municipios_de, c.end) )
             => CategoryAt(c.end) = {"estate"}

\* a tied name in a text that holds neither cue
C6_Witness ==
    /\ pc = "replace"
    /\ \E p \in ExactTies :
         LET c == cities_pos[p[1]]
         IN  /\ ~CueBefore(w_estados_de, c.end)
             /\ ~CueBefore(w_municipios_de, c.end)
             /\ CategoryAt(c.end) = {"estate"}


\* the string begins, after an optional space or comma, with an uppercase
\* letter or with estado/Estado/municipio/Municipio
BeginsWithCapitalOrKeyword(span) ==
    LET body == IF span # << >> /\ span[1] \in {" ", ","} THEN Tail(span) ELSE span
    IN  /\ body # << >>
        /\ \/ body[1] \in UpperCase
           \/ \E w \in { << "e","s","t","a","d","o" >>, << "E","s","t","a","d","o" >>,
                         << "m","u","n","i","c","i","p","i","o" >>,
                         << "M","u","n","i","c","i","p","i","o" >> } :
                Slice(body, 0, Len(w)) = w

\* the string part occurs in the string whole
Contains(whole, part) ==
    \E i \in 0..Len(whole) : Slice(whole, i, i + Len(part)) = part

\* C7: a resolved span whose original-text substring does not begin with an
\* uppercase letter or an administrative keyword is left in the output as
\* it is, together with the text between the previous span and this one:
\* the step keeps what was written and the output holds the characters
\* from the end of the previous span (or the start of this one) to the end
\* of this span.
C7_FalsePositiveKept ==
    [][ ( pc = "replace" /\ row_idx' = row_idx + 1 )
        => LET row  == total_replacements[row_idx + 1]
               span == Slice(text, row.start, row.end)
           IN  ~BeginsWithCapitalOrKeyword(span)
               => /\ Slice(clean_text', 0, Len(clean_text)) = clean_text
                  /\ Contains(clean_text', Slice(text, Min(last_end, row.start), row.end))
      ]_vars

\* no name of the lists occurs in the normalized placeholder of a category
PlaceholdersHoldNoName ==
    \A c \in DOMAIN inegi_replacements : \A d \in DOMAIN inegi_replacements :
        \A k \in DOMAIN inegi_replacements[d].names_list :
            LET ph   == Normalize(inegi_replacements[c].replacement)
                name == inegi_replacements[d].names_list[k]
            IN  \A i \in 0..Len(ph) : Slice(ph, i, i + Len(name)) # name

\* C8: redacting a text that is already the output of a redaction returns
\* it unchanged: redact(redact(t)) = redact(t).
C8_Idempotent ==
    ( pc = "done" /\ calls = 2 /\ PlaceholdersHoldNoName )
    => result = text


\* C9: a text that passes the cue probe but in which no city name and no
\* estate name matches is returned unchanged, and nothing is raised.
C9_NoMatches ==
    ( pc \in {"done", "raised"} /\ WellFormed
      /\ CueInText(text) /\ ~SomeNameMatches(text) )
    => /\ raised = "none"
       /\ pc = "done"
       /\ result = text

\* such a text went through the whole pipeline and was returned
C9_Witness ==
    /\ pc = "done"
    /\ WellFormed /\ CueInText(text) /\ ~SomeNameMatches(text)
    /\ search_text # << >>
    /\ total_replacements = << >>
    /\ result = text

\* C10 as stated: whatever the text, a call whose configuration lacks the
\* "city" or the "estate" entry does not return a string.
C10_MalformedAlwaysRaises ==
    ~WellFormed => pc # "done"

\* C10: for a text that passes the cue probe, a call whose configuration
\* lacks the "city" or the "estate" entry ends with a KeyError and never
\* returns a string; without a cue the text is returned before the
\* configuration is read.
C10_MalformedRaises ==
    ~WellFormed
    => IF CueInText(text)
       THEN /\ pc \in {"probe", "call_find", "find_loop", "raised"}
            /\ pc = "raised" <=> raised = "KeyError"
            /\ pc = "find_loop" => category = "city"
       ELSE pc \in {"probe", "done"} /\ raised = "none"

\* the estate entry is missing: the city names were searched, then the
\* lookup of the estate entry raised
C10_Witness ==
    /\ pc = "raised"
    /\ raised = "KeyError"
    /\ "estate" \notin DOMAIN inegi_replacements
    /\ category = "estate"
    /\ CueInText(text)

----------------------------------------------------------------------------
(* The replacement list and the match sets. *)

\* the rows are ordered by start ascending
OrderedByStart(rows) ==
    \A i \in DOMAIN rows : \A j \in DOMAIN rows :
        i < j => rows[i].start <= rows[j].start

\* no two rows share a character of the text
NonOverlapping(rows) ==
    \A i \in DOMAIN rows : \A j \in DOMAIN rows :
        i # j => ( rows[i].end <= rows[j].start \/ rows[j].end <= rows[i].start )

\* C12: the replacement list handed to the walk of lines 178-190 is ordered
\* by start ascending and its spans are pairwise non-overlapping.
C12_SortedNonOverlapping ==
    pc = "replace"
    => OrderedByStart(total_replacements) /\ NonOverlapping(total_replacements)

\* the matches of the k-th name of an entry in the text s
MatchesOfName(entry, k, s) ==
    LET ms == FindIter(entry.base_regex, entry.names_list[k], s)
    IN  { ms[i] : i \in DOMAIN ms }

\* the names of the running category whose matches have all been visited
VisitedNames ==
    IF pc = "find_loop" /\ pending = << >> THEN 1..value_idx ELSE {}

\* C13: once the matches of a name have been visited, every match of every
\* name visited so far has an entry at its end offset whose start is not
\* larger than the match's, and that entry is a match of the name it
\* records: of the matches ending at one offset the one with the smallest
\* start is kept, whatever the order the names came in.
C13_SmallerStartWins ==
    VisitedNames # {} =>
        LET matches == << >> \o [k \in 1..value_idx |->
                                   MatchesOfName(CurrentEntry, k, search_text)]
        IN  /\ \A k \in VisitedNames : \A m \in matches[k] :
                  \E i \in DOMAIN found_matches_pos :
                      /\ found_matches_pos[i].end = m.end
                      /\ found_matches_pos[i].start <= m.start
            /\ \A i \in DOMAIN found_matches_pos :
                  \E k \in VisitedNames :
                      /\ found_matches_pos[i].place_name
                           = CurrentEntry.names_list[k]
                      /\ [start |-> found_matches_pos[i].start,
                          end |-> found_matches_pos[i].end] \in matches[k]

\* an entry recorded for a later name replaced the entry of an earlier name
\* whose match ends at the same offset and starts further right
C13_Witness ==
    \E j \in VisitedNames : \E i \in 1..(j - 1) :
        \E r \in DOMAIN found_matches_pos :
            /\ found_matches_pos[r].place_name = CurrentEntry.names_list[j]
            /\ found_matches_pos[r].place_name # CurrentEntry.names_list[i]
            /\ \E m \in MatchesOfName(CurrentEntry, i, search_text) :
                  /\ m.end = found_matches_pos[r].end
                  /\ m.start > found_matches_pos[r].start

\* the end values of the rows are pairwise distinct
UniqueEnds(rows) ==
    \A i \in DOMAIN rows : \A j \in DOMAIN rows :
        rows[i].end = rows[j].end => i = j

\* C14: after every step of find_matches_positions the recorded matches hold
\* at most one entry per end offset, and so do the match sets of the two
\* categories it returns.
C14_OneEntryPerEnd ==
    /\ UniqueEnds(found_matches_pos)
    /\ UniqueEnds(cities_pos)
    /\ UniqueEnds(estates_pos)

\* a later name matched at an end offset an earlier name had recorded with
\* a smaller start: the entry of the earlier name is still the only one
C14_Witness ==
    \E j \in VisitedNames : \E i \in 1..(j - 1) :
        \E r \in DOMAIN found_matches_pos :
            /\ found_matches_pos[r].place_name = CurrentEntry.names_list[i]
            /\ found_matches_pos[r].place_name # CurrentEntry.names_list[j]
            /\ \E m \in MatchesOfName(CurrentEntry, j, search_text) :
                  /\ m.end = found_matches_pos[r].end
                  /\ m.start > found_matches_pos[r].start

----------------------------------------------------------------------------
(* The order of the candidate names. *)

\* the orders a list can be supplied in
Orders(list) ==
    LET n == Len(list)
    IN  { [i \in 1..n |-> list[f[i]]] :
            f \in { g \in [1..n -> 1..n] :
                       \A a \in 1..n : \A b \in 1..n : g[a] = g[b] => a = b } }

\* the records of a sequence of rows, as a set
Records(rows) == { rows[i] : i \in DOMAIN rows }

\* the spans of a sequence of rows, as a set
Spans(rows) == { [start |-> rows[i].start, end |-> rows[i].end] : i \in DOMAIN rows }

\* find_matches_positions has visited every name of the running category
FindComplete ==
    /\ pc = "find_loop"
    /\ pending = << >>
    /\ value_idx = Len(CurrentEntry.names_list)

\* the names of the running category with their matches in search_text;
\* the matches of a name do not depend on its place in the list, so the
\* orders of this list are the orders of names_list
CurrentNamesWithMatches ==
    NamesWithMatches(search_text, CurrentEntry.names_list, CurrentEntry.base_regex)

\* C15 as stated: for every order of the candidate names
\* find_matches_positions returns the same set of records (start, end and
\* name).
C15_OrderIndependent ==
    FindComplete =>
        LET found == CurrentNamesWithMatches
        IN  \A p \in Orders(found) :
                Records(VisitNames(<< >>, p)) = Records(found_matches_pos)

\* the places of the list p whose name matches exactly the span of row
SameSpanNames(p, row) ==
    { k \in DOMAIN p :
        [start |-> row.start, end |-> row.end] \in Records(p[k].matches) }

\* C15: for every order of the candidate names find_matches_positions
\* returns the same set of spans (start and end); the name recorded with a
\* span is the last name of the list, in the order supplied, that matches
\* exactly that span, so it depends on the order only where two names
\* match the same span.
C15_OrderIndependentSpans ==
    FindComplete =>
        LET found == CurrentNamesWithMatches
        IN  \A p \in Orders(found) :
                LET rows == VisitNames(<< >>, p)
                IN  /\ Spans(rows) = Spans(found_matches_pos)
                    /\ \A i \in DOMAIN rows :
                          LET ks == SameSpanNames(p, rows[i])
                          IN  /\ ks # {}
                              /\ rows[i].place_name
                                   = p[CHOOSE k \in ks : \A l \in ks : l <= k].value_str

\* two names of the list match one span: the later one is recorded, and
\* the list in the reverse order records the other
C15_Witness ==
    /\ FindComplete
    /\ \E i \in DOMAIN found_matches_pos :
          \E k \in SameSpanNames(CurrentNamesWithMatches, found_matches_pos[i]) :
              /\ CurrentEntry.names_list[k] # found_matches_pos[i].place_name
              /\ \E l \in (k + 1)..Len(CurrentEntry.names_list) :
                    CurrentEntry.names_list[l] = found_matches_pos[i].place_name

----------------------------------------------------------------------------
(* The resolver's output. *)

\* the matches of rows whose end offset no match of others has
OnlyIn(rows, others) ==
    { rows[i] : i \in { k \in DOMAIN rows : rows[k].end \notin Ends(others) } }

\* C16: the replacement list holds exactly one row for every end offset of
\* the city set or the estate set and no other row; a match whose end
\* offset occurs in one category's set only is in the list with its own
\* start, its end and that category.
C16_ResolverExact ==
    ( pc = "replace" /\ row_idx = 0 ) =>
        /\ Ends(total_replacements) = Ends(cities_pos) \cup Ends(estates_pos)
        /\ UniqueEnds(total_replacements)
        /\ \A m \in OnlyIn(cities_pos, estates_pos) :
              [start |-> m.start, end |-> m.end, type |-> "city"]
                \in Records(total_replacements)
        /\ \A m \in OnlyIn(estates_pos, cities_pos) :
              [start |-> m.start, end |-> m.end, type |-> "estate"]
                \in Records(total_replacements)

\* an end offset of both sets is resolved to one row next to two matches
\* of the city set only
C16_Witness ==
    /\ pc = "replace"
    /\ Ends(cities_pos) \cap Ends(estates_pos) # {}
    /\ Cardinality(OnlyIn(cities_pos, estates_pos)) = 2
    /\ Len(total_replacements) = 3
    /\ Len(cities_pos) + Len(estates_pos) = 4

----------------------------------------------------------------------------
(* The text the context cues are searched in. *)

\* the city matches that an estate match covers exactly: same start, same end
TiedCities ==
    { cities_pos[i] : i \in { k \in DOMAIN cities_pos :
        \E j \in DOMAIN estates_pos :
            /\ estates_pos[j].end = cities_pos[k].end
            /\ estates_pos[j].start = cities_pos[k].start } }

\* the category lines 82-89 give to the tied match c when the cues are
\* searched in the string s
TieCategoryIn(s, c) ==
    IF ContextStart(MunicipiosCue, c.place_name, Slice(s, 0, c.end))
         > ContextStart(EstadosCue, c.place_name, Slice(s, 0, c.end))
    THEN "city" ELSE "estate"

----------------------------------------------------------------------------
(* Which occurrence of a cue decides an exact tie. *)

\* the start of the occurrence of the pattern "<cue> .*? <place_name>"
\* nearest to the end of s, -1 when there is none
NearestContextStart(cues, place_name, s) ==
    LET tail  == << " " >> \o place_name
        hits  == { i \in 0..Len(s) :
                     \E cue \in cues :
                       /\ OccursAt(s, cue \o << " " >>, i)
                       /\ \E j \in (i + Len(cue) + 1)..Len(s) :
                            /\ OccursAt(s, tail, j)
                            /\ \A k \in (i + Len(cue) + 2)..j : s[k] # "\n" }
    IN  IF hits = {} THEN -1 ELSE CHOOSE i \in hits : \A h \in hits : h <= i

\* C18: in an exact tie with both cues before the match, the replacement
\* is city exactly when the nearest "municipios de" cue preceding the
\* match starts after the nearest "estados de" cue preceding it.
C18_NearestCueDecides ==
    pc = "replace" =>
        \A c \in TiedCities :
            LET before == Slice(search_text, 0, c.end)
                city_start   == NearestContextStart(MunicipiosCue, c.place_name, before)
                estate_start == NearestContextStart(EstadosCue, c.place_name, before)
            IN  ( city_start >= 0 /\ estate_start >= 0 )
                => ( CategoryAt(c.end) = {"city"} <=> city_start > estate_start )

----------------------------------------------------------------------------
(* The guard's leading separator. *)

\* the string begins with an uppercase letter or a keyword and has no space
\* or comma in front
BeginsDirectly(span) ==
    /\ span # << >>
    /\ span[1] \notin Separators
    /\ BeginsWithCapitalOrKeyword(span)

----------------------------------------------------------------------------
(* The redactor walk in closed form. *)

\* every span of the list passes the guard of line 181
AllPassGuard(rows) ==
    \A k \in DOMAIN rows :
        UpperCaseMatches(Slice(text, rows[k].start, rows[k].end))

\* for each span in order the text between the previous span's end (0 for
\* the first span) and the span's start, then the span's placeholder; then
\* the text after the last span
ExpectedWalk(rows) ==
    LET n        == Len(rows)
        prev(k)  == IF k = 1 THEN 0 ELSE rows[k - 1].end
        piece(k) == Slice(text, prev(k), rows[k].start)
                      \o inegi_replacements[rows[k].type].replacement
    IN  Flatten([k \in 1..n |-> piece(k)])
          \o SliceFrom(text, IF n = 0 THEN 0 ELSE rows[n].end)

\* C20: for a replacement list that is ordered by start, non-overlapping
\* and whose spans all pass the guard, the returned string is the
\* concatenation, span by span, of the text since the previous span and
\* the span's placeholder, followed by the text after the last span.
C20_RedactorWalk ==
    ( /\ pc = "done"
      /\ OrderedByStart(total_replacements)
      /\ NonOverlapping(total_replacements)
      /\ AllPassGuard(total_replacements) )
    => result = ExpectedWalk(total_replacements)

\* two spans were replaced, with text between the two
C20_Witness ==
    /\ pc = "done"
    /\ Len(total_replacements) >= 2
    /\ OrderedByStart(total_replacements)
    /\ NonOverlapping(total_replacements)
    /\ AllPassGuard(total_replacements)
    /\ total_replacements[1].end < total_replacements[2].start
    /\ result = ExpectedWalk(total_replacements)
    /\ result # text

----------------------------------------------------------------------------
(* Two invocations interleaved. *)

\* what an invocation with the local variables l has returned or raised
Outcome(l) ==
    [result |-> IF l.pc = "done" THEN l.result ELSE << >>, raised |-> l.raised]

\* C11: of two invocations that run interleaved, each on its own text,
\* each ends with an outcome the same call has when it runs alone, and no
\* step of either changes the name lists, templates or placeholders the
\* caller supplied.
C11_Purity ==
    /\ []( /\ pc \in {"done", "raised"}
              => Outcome(Locals) \in replace_places_by_flag(text, inegi_replacements)
           /\ other.pc \in {"done", "raised"}
              => Outcome(other)
                   \in replace_places_by_flag(other.text, inegi_replacements) )
    /\ [][inegi_replacements' = inegi_replacements]_vars

\* one invocation has returned a redacted text while the other one, called
\* with another text, is suspended in the middle of its replacement loop
C11_Witness ==
    /\ pc = "done"
    /\ result # text
    /\ other.pc = "replace"
    /\ other.row_idx >= 1
    /\ other.row_idx < Len(other.total_replacements)
    /\ other.text # text
    /\ Outcome(Locals) \in replace_places_by_flag(text, inegi_replacements)

----------------------------------------------------------------------------
(* The fast path against the pipeline it skips. *)

\* C21: a text on which the cue probe fails is returned unchanged by the
\* pipeline of lines 120-195 too, when that pipeline is run without the
\* probe.
C21_FastPathPure ==
    ( pc = "done" /\ search_text = << >> /\ WellFormed /\ ~ProbeMatches(text) )
    => \A o \in FullPipeline(text, inegi_replacements) :
           o.raised = "none" /\ o.result = text

----------------------------------------------------------------------------
(* The position of the walk. *)

\* C22: at every step of the replacement loop last_end is not larger than
\* the start of the span the step visits, and the step does not move
\* last_end backwards.
C22_LastEndMonotone ==
    [][ ( pc = "replace" /\ row_idx' = row_idx + 1 )
        => /\ last_end <= total_replacements[row_idx + 1].start
           /\ last_end <= last_end'
      ]_vars

\* C23: a step of the loop that writes a placeholder visits a span that
\* begins, in the original text, with a space or a comma, and writes the
\* text from last_end up to, not including, that separator, followed
\* directly by the placeholder of the span's category.
C23_SeparatorRemoved ==
    [][ ( pc = "replace" /\ row_idx' = row_idx + 1 )
        => LET row  == total_replacements[row_idx + 1]
               span == Slice(text, row.start, row.end)
               ph   == inegi_replacements[row.type].replacement
           IN  clean_text' # clean_text \o Slice(text, last_end, row.end)
               => /\ span # << >> /\ span[1] \in Separators
                  /\ clean_text' = clean_text \o Slice(text, last_end, row.start) \o ph
                  /\ last_end <= row.start
                     => Len(clean_text') = Len(clean_text) + (row.start - last_end)
                                             + Len(ph)
      ]_vars

\* a span after some kept text has been replaced: the output written so
\* far ends with the text before the span's separator and the placeholder
C23_Witness ==
    /\ pc = "replace"
    /\ row_idx >= 1
    /\ LET row  == total_replacements[row_idx]
           span == Slice(text, row.start, row.end)
           ph   == inegi_replacements[row.type].replacement
       IN  /\ row.start > 0
           /\ last_end = row.end
           /\ span[1] \in Separators
           /\ clean_text = Slice(text, 0, row.start) \o ph

\* C24: every span of the replacement list lies within the original text
\* and covers the characters whose normalized form was matched.
C24_OffsetsAgree ==
    ( pc = "replace" /\ row_idx = 0 ) =>
        \A k \in DOMAIN total_replacements :
            LET row == total_replacements[k]
            IN  /\ row.end <= Len(text)
                /\ Normalize(Slice(text, row.start, row.end))
                     = Slice(search_text, row.start, row.end)

----------------------------------------------------------------------------
\* C30: get_url issues at most max_retries + 1 requests, returns only a
\* response whose status is below 500, and has raised once a request has
\* failed (exception or status >= 500) with max_retries retries used
C30_GetUrlBounded ==
    /\ Len(outcomes) <= max_retries + 1
    /\ get_url_pc = "returned" => ( response # None /\ response[1] < 500 )
    /\ ( /\ outcomes # << >>
         /\ Len(outcomes) > max_retries
         /\ LET last == outcomes[Len(outcomes)]
            IN  last = None \/ last[1] >= 500 )
       => get_url_pc \notin { "loop", "returned" }

\* a JSON array: "[", articles separated by single commas, "]"
RECURSIVE IsItems(_)
IsItems(tokens) ==
    IF tokens = << >> THEN FALSE
    ELSE /\ Head(tokens) \in Articles
         /\ \/ Len(tokens) = 1
            \/ Len(tokens) >= 3 /\ tokens[2] = "," /\ IsItems(Tail(Tail(tokens)))

IsJsonArray(tokens) ==
    /\ Len(tokens) >= 2
    /\ tokens[1] = "["
    /\ tokens[Len(tokens)] = "]"
    /\ LET inner == SubSeq(tokens, 2, Len(tokens) - 1)
       IN  inner = << >> \/ IsItems(inner)

IsArticle(token) == token \in Articles

\* C27: after any sequence of write_to_json calls on one path the file is
\* one well-formed JSON array whose elements are the articles written, each
\* once and in call order
C27_FileIsArrayOfWritten ==
    writes > 0 =>
        /\ IsJsonArray(outfile)
        /\ SelectSeq(outfile, IsArticle) = articles_written

\* C25: in the Animal Politico bot, after every batch the ids file holds the
\* id of every article written to the output files so far, in this call and
\* in earlier ones, and no article has been written twice
C25_IdsFileHoldsWritten ==
    ( bot = "animal_politico" /\ section_pc = "end_batch" )
    => /\ \A id \in ArticleIds : written_count[id] > 0 => id \in ids_file
       /\ \A id \in ArticleIds : written_count[id] <= 1

\* C26: in the El Economista bot every article is appended to the output
\* files at most once over any sequence of calls, interrupted calls included
C26_AtMostOnce ==
    bot = "el_economista" => \A id \in ArticleIds : written_count[id] <= 1

\* C28: whenever get_section_data has returned the checkpoint is a negative
\* number, and a later call returns at once: no request, no article written,
\* checkpoint as it was
C28_FinishedMarker ==
    /\ []( section_pc = "returned" => ( checkpoint # None /\ checkpoint[1] < 0 ) )
    /\ [][ ( section_pc = "returned" /\ runs' = runs + 1 )
           => /\ section_pc' = "returned"
              /\ UNCHANGED << checkpoint, written_count, requests_made >> ]_vars

\* the legislature's dates and the requested ones have a day in common
Intersects(legis) ==
    \E day \in Max(legis.start_date, requested_start)
                 .. Min(legis.end_date, end_date) : TRUE

Loaded(legis) == \E k \in DOMAIN loads : loads[k].legis_number = legis.legis_number

\* C29: senate_bot loads a legislature exactly when its dates intersect the
\* requested [start_date, end_date], and every call of load_legislature_data
\* gets a range with legis_start <= legis_end inside the requested range and
\* inside the legislature
C29_LoadsIntersecting ==
    legis_idx = Len(LEGISLATURE_DATES) =>
        /\ \A i \in DOMAIN LEGISLATURE_DATES :
              Loaded(LEGISLATURE_DATES[i]) <=> Intersects(LEGISLATURE_DATES[i])
        /\ \A k \in DOMAIN loads :
              LET call == loads[k]
                  legis == CHOOSE l \in { LEGISLATURE_DATES[i] : i \in DOMAIN LEGISLATURE_DATES } :
                               l.legis_number = call.legis_number
              IN  /\ call.start_date <= call.end_date
                  /\ requested_start <= call.start_date
                  /\ call.end_date <= end_date
                  /\ legis.start_date <= call.start_date
                  /\ call.end_date <= legis.end_date

====
